---- MODULE Spec2Model ----
(***************************************************************************)
(* Model of src/lib/deploy.js (serverless-kubeless): the batch             *)
(* orchestrator deploy(), the submitters deployFunctionAndWait() and       *)
(* redeployFunctionAndWait(), the readiness poller waitForDeployment()     *)
(* and the ingress provisioner addIngressRuleIfNecessary().                *)
(*                                                                         *)
(* The cluster API is the environment: every reply (function list, create, *)
(* update, pod list, ingress) is chosen nondeterministically when its      *)
(* callback runs.  One action is one callback of the event loop together   *)
(* with the promise continuations it triggers: the continuations only      *)
(* touch errors/counter/outcome and run in settlement order, so no other   *)
(* callback can observe a state between a settlement and its continuation. *)
(* The logging sink (opts.log) and previousPodStatus, which only           *)
(* suppresses duplicate log lines, are not modelled.                       *)
(***************************************************************************)
EXTENDS Integers, Sequences, FiniteSets, TLC

\* ------------------------------------------------------------------ bounds
MaxFuncs == 2       \* descriptors in one batch
MaxEvents == 2      \* events of one descriptor
MaxPairs == 1       \* function x event pairs of a batch of SpecPair
MaxPods == 2        \* pods in one pod-list reply (stand-alone poller)
MaxInflight == 2    \* unanswered pod queries of the stand-alone poller

VARIABLES
  functions,  \* deploy(functions, ...): sequence of descriptors, id = index
  opts,       \* deploy options [force, verbose]
  called,     \* deploy() has run its synchronous part
  op,         \* per function x event pair: position in deploy()'s callbacks
  poll,       \* per pair: the PollState of its waitForDeployment() call
  calls,      \* per pair: API calls issued so far (history)
  errors,     \* deploy(): const errors = []
  counter,    \* deploy(): let counter = 0
  outcome,    \* the promise returned by deploy(), or by
              \* addIngressRuleIfNecessary() when it is called on its own
  exitCode,   \* process.exitCode
  uncaught,   \* an exception was thrown out of an API callback
  last        \* the most recent pod-list reply handled (history)

vars == <<functions, opts, called, op, poll, calls, errors, counter,
          outcome, exitCode, uncaught, last>>

Pairs == (1..MaxFuncs) \X (1..MaxEvents)

\* ------------------------------------------------------- readiness poller
Times == <<0, 1>>
PollMoments == {1}   \* requestMoment: pods stamped 0 are older
NoStatus == <<>>

\* pod.status.containerStatuses: absent, or a list whose first element counts
ContainerStatuses ==
  <<NoStatus,
    <<[ready |-> TRUE, restartCount |-> 0]>>,
    <<[ready |-> TRUE, restartCount |-> 3]>>,
    <<[ready |-> FALSE, restartCount |-> 2]>>,
    <<[ready |-> FALSE, restartCount |-> 3]>>>>

Pod(label, ts, cs) ==
  [function |-> label, creationTimestamp |-> ts, containerStatuses |-> cs]

NoPoll ==
  [active |-> FALSE, funcName |-> 0, requestMoment |-> 0, verbose |-> FALSE,
   retries |-> 0, successfulCount |-> 0, ticking |-> FALSE, inflight |-> 0,
   result |-> "none", reason |-> "none"]

\* waitForDeployment(funcName, requestMoment, namespace, options): the state
\* right after the call returned its promise and armed the interval
NewPoll(funcName, requestMoment, verbose) ==
  [active |-> TRUE, funcName |-> funcName, requestMoment |-> requestMoment,
   verbose |-> verbose, retries |-> 0, successfulCount |-> 0,
   ticking |-> TRUE, inflight |-> 0, result |-> "pending", reason |-> "none"]

functionPodsAnyAge(items, funcName, requestMoment) ==
  SelectSeq(items, LAMBDA pod : pod.function = funcName)

\* _.filter(podsInfo.items, pod => label matches && created >= requestMoment)
functionPods(items, funcName, requestMoment) ==
  SelectSeq(items, LAMBDA pod :
      pod.function = funcName /\ pod.creationTimestamp >= requestMoment)

\* The _.each over functionPods: counts runningPods and notes whether the
\* crash-loop branch (clearInterval, process.exitCode) was taken.
RECURSIVE eachPod(_, _, _)
eachPod(pods, i, acc) ==
  IF i > Len(pods) THEN acc
  ELSE LET cs == pods[i].containerStatuses IN
       IF cs = NoStatus THEN eachPod(pods, i + 1, acc)
       ELSE IF cs[1].ready
            THEN eachPod(pods, i + 1,
                         [acc EXCEPT !.runningPods = @ + 1])
       ELSE IF cs[1].restartCount > 2
            THEN eachPod(pods, i + 1, [acc EXCEPT !.crashed = TRUE])
       ELSE eachPod(pods, i + 1, acc)

\* resolve()/reject() of a promise that may already be settled
Settle(p, result, reason) ==
  IF p.result = "pending"
  THEN [p EXCEPT !.result = result, !.reason = reason]
  ELSE p

\* The setInterval callback up to (not including) the reply of its query.
TickPoll(p) ==
  LET gaveUp == p.retries > 3
      q == IF gaveUp
           THEN [Settle(p, "rejected", "DeploymentTimeout")
                   EXCEPT !.ticking = FALSE]
           ELSE p
  IN [q EXCEPT !.inflight = @ + 1]

\* Whether a not-fully-ready observation resets successfulCount
ResetsOnNotReady(verbose) == verbose

\* The core.pods.get callback for a reply without error.
PodsReply(p, items) ==
  LET fp == functionPods(items, p.funcName, p.requestMoment) IN
  IF Len(fp) = 0
  THEN [p EXCEPT !.retries = @ + 1]
  ELSE LET acc == eachPod(fp, 1, [runningPods |-> 0, crashed |-> FALSE])
           p1 == IF acc.crashed THEN [p EXCEPT !.ticking = FALSE] ELSE p
       IN IF acc.runningPods = Len(fp)
          THEN LET p2 == [p1 EXCEPT !.successfulCount = @ + 1] IN
               IF p2.successfulCount = 2
               THEN [Settle(p2, "resolved", "none") EXCEPT !.ticking = FALSE]
               ELSE p2
          ELSE IF ResetsOnNotReady(p1.verbose)
               THEN [p1 EXCEPT !.successfulCount = 0]
               ELSE p1

\* process.exitCode = process.exitCode || 1 in the crash-loop branch
ExitCodeAfter(p, items, code) ==
  LET fp == functionPods(items, p.funcName, p.requestMoment)
      acc == eachPod(fp, 1, [runningPods |-> 0, crashed |-> FALSE])
  IN IF acc.crashed /\ code = 0 THEN 1 ELSE code

\* ------------------------------------------------------ manifest and ingress
NoPath == <<>>
RootPath == <<"/">>
Paths == {NoPath, RootPath, <<"f">>, <<"/", "f">>}
NoHost == ""

HttpRoot == [type |-> "http", path |-> RootPath, hostname |-> NoHost,
             trigger |-> ""]
HttpFoo == [type |-> "http", path |-> <<"/", "f">>, hostname |-> NoHost,
            trigger |-> ""]
TriggerNoTopic == [type |-> "trigger", path |-> NoPath, hostname |-> NoHost,
                   trigger |-> ""]
BatchEvents == {HttpFoo, TriggerNoTopic}

\* The arguments of addIngressRuleIfNecessary called on its own
IngressTypes == {"http", "trigger", "schedule"}
Hostnames == {NoHost, "example.com"}
IngressEvents ==
  {[type |-> t, path |-> p, hostname |-> h, trigger |-> ""] :
      t \in IngressTypes, p \in Paths, h \in Hostnames}

\* getFunctionDescription: the manifest, or the error it throws
getFunctionDescription(funcName, funcContent, handler, eventType, eventTrigger) ==
  LET base == [function |-> funcContent, handler |-> handler,
               type |-> "none", topic |-> ""]
  IN CASE eventType = "http" ->
            [thrown |-> "none",
             metadata |-> [name |-> funcName],
             spec |-> [base EXCEPT !.type = "HTTP"]]
       [] eventType = "trigger" ->
            IF eventTrigger = ""
            THEN [thrown |-> "InvalidEventConfiguration"]
            ELSE [thrown |-> "none",
                  metadata |-> [name |-> funcName],
                  spec |-> [base EXCEPT !.type = "PubSub",
                                        !.topic = eventTrigger]]
       [] OTHER -> [thrown |-> "UnsupportedEventType"]

\* deploy(): events of a descriptor, defaulted when empty
EventsOf(description) ==
  IF description.events # <<>> THEN description.events ELSE <<HttpRoot>>

HasHandlerAlways(description) == TRUE

\* deploy(): if (description.handler)
HasHandler(description) == description.handler # ""

Manifest(o) ==
  LET d == functions[o[1]]
      e == EventsOf(d)[o[2]]
  IN getFunctionDescription(o[1], d.text, d.handler, e.type, e.trigger)

IngressNeededAnyType(eventType, eventPath, eventHostname) ==
  \/ (eventPath # NoPath /\ eventPath # RootPath)
  \/ eventHostname # NoHost

\* addIngressRuleIfNecessary: the condition under which a rule is posted
IngressNeeded(eventType, eventPath, eventHostname) ==
  /\ eventType = "http"
  /\ \/ (eventPath # NoPath /\ eventPath # RootPath)
     \/ eventHostname # NoHost

\* addIngressRuleIfNecessary: absolutePath
absolutePath(eventPath) ==
  LET fpath == IF eventPath # NoPath THEN eventPath ELSE RootPath IN
  IF fpath[1] = "/" THEN fpath ELSE <<"/">> \o fpath

\* ------------------------------------------------------------ batch inputs
Descriptors ==
  {[handler |-> "", text |-> "v2", events |-> <<>>]} \cup
  {[handler |-> "h", text |-> "v2", events |-> ev] :
      ev \in UNION {[1..n -> BatchEvents] : n \in 0..MaxEvents}}

PairCount(description) ==
  IF HasHandler(description) THEN Len(EventsOf(description)) ELSE 0

RECURSIVE TotalPairs(_, _)
TotalPairs(fs, i) ==
  IF i > Len(fs) THEN 0 ELSE PairCount(fs[i]) + TotalPairs(fs, i + 1)

\* The batches that schedule at most n pairs
BatchInputs(n) ==
  {fs \in UNION {[1..k -> Descriptors] : k \in 0..MaxFuncs} :
      TotalPairs(fs, 1) <= n}

\* Replies of the function list: at most one entry per name
FunctionSpecs ==
  {[function |-> t, handler |-> "h", type |-> "HTTP", topic |-> ""] :
      t \in {"v1", "v2"}}

FunctionLists ==
  {items \in SUBSET [metadata : [name : 1..Len(functions)],
                     spec : FunctionSpecs] :
      \A a, b \in items : a.metadata.name = b.metadata.name => a = b}

NoCalls == [list |-> 0, create |-> 0, update |-> 0, ingress |-> 0,
            path |-> NoPath, pods |-> FALSE]
NoOp == [pc |-> "none", found |-> {}, redeployed |-> FALSE, fault |-> "none"]
NoLast == [pair |-> <<0, 0>>, err |-> "none", matching |-> 0, ready |-> 0,
           crashing |-> 0, ignored |-> FALSE]
Pending == [state |-> "pending", kind |-> "none", messages |-> <<>>]

\* ------------------------------------------------------------------ deploy
\* An exception thrown out of a callback is uncaught: the process ends and
\* no further callback runs.
Running == ~uncaught

\* The pairs of the batch in the order _.each visits them
RECURSIVE PairsFrom(_, _, _)
PairsFrom(fs, i, j) ==
  IF i > Len(fs) THEN <<>>
  ELSE IF ~HasHandler(fs[i]) \/ j > Len(EventsOf(fs[i]))
       THEN PairsFrom(fs, i + 1, 1)
       ELSE <<<<i, j>>>> \o PairsFrom(fs, i, j + 1)

\* Index of the first pair whose manifest cannot be built, 0 if none
RECURSIVE FirstThrow(_, _)
FirstThrow(ps, k) ==
  IF k > Len(ps) THEN 0
  ELSE IF Manifest(ps[k]).thrown # "none" THEN k
  ELSE FirstThrow(ps, k + 1)

\* deploy(): the promise executor, run synchronously by the call.  Each pair
\* with a handler builds its manifest and sends a function-list request; an
\* error thrown by getFunctionDescription leaves the loops and rejects the
\* returned promise.
Deploy ==
  /\ ~called
  /\ called' = TRUE
  /\ LET ps == PairsFrom(functions, 1, 1)
         t == FirstThrow(ps, 1)
         sent == IF t = 0 THEN ps ELSE SubSeq(ps, 1, t - 1)
         scheduled == {sent[k] : k \in 1..Len(sent)}
     IN /\ op' = [o \in Pairs |->
                    IF o \in scheduled THEN [NoOp EXCEPT !.pc = "lookup"]
                    ELSE op[o]]
        /\ calls' = [o \in Pairs |->
                    IF o \in scheduled THEN [NoCalls EXCEPT !.list = 1]
                    ELSE calls[o]]
        /\ outcome' = IF t = 0 THEN outcome
                      ELSE [state |-> "rejected",
                            kind |-> Manifest(ps[t]).thrown,
                            messages |-> <<>>]
  /\ UNCHANGED <<functions, opts, poll, errors, counter, exitCode, uncaught,
                 last>>

\* deploy(): the total the completion counter is compared with
ExpectedTotal == Len(functions)

\* deploy(): the last continuation of a pair: counter++ and the batch verdict
Finish(o, seen, errs, fault) ==
  /\ errors' = errs
  /\ counter' = counter + 1
  /\ outcome' =
       IF counter + 1 = ExpectedTotal /\ outcome.state = "pending"
       THEN IF errs = <<>>
            THEN [state |-> "resolved", kind |-> "none", messages |-> <<>>]
            ELSE [state |-> "rejected", kind |-> "BatchDeploymentFailed",
                  messages |-> errs]
       ELSE outcome
  /\ op' = [seen EXCEPT ![o].pc = "done", ![o].fault = fault]

SkipIngressUndeployed(deployed, redeployed) == ~deployed

SkipIngressRedeployed(deployed, redeployed) == redeployed

\* deploy(): whether the continuation of the deployment promise skips ingress
SkipIngress(deployed, redeployed) == ~deployed \/ redeployed

\* deploy(): .then((deployed) => ...) once the deployment promise resolved
AfterDeployment(o, deployed, errs, fault) ==
  LET e == EventsOf(functions[o[1]])[o[2]] IN
  IF SkipIngress(deployed, op[o].redeployed)
     \/ ~IngressNeeded(e.type, e.path, e.hostname)
  THEN Finish(o, op, errs, fault)
  ELSE /\ op' = [op EXCEPT ![o].pc = "ingress", ![o].fault = fault]
       /\ errors' = errs
       /\ UNCHANGED <<counter, outcome>>

Failure(o, error) == [pair |-> o, error |-> error]

\* deploy(): the flags computed from the function list
existingFunction(items, funcs) ==
  \E item \in items : item.metadata.name = funcs.metadata.name

existingSameFunctionWhole(items, funcs) ==
  \E item \in items : item = funcs

existingSameFunction(items, funcs) ==
  \E item \in items : /\ item.metadata.name = funcs.metadata.name
                      /\ item.spec = funcs.spec

UseUpdateUnforced(existing, force) == existing /\ ~force

UseUpdateAlways(existing, force) == existing

\* deploy(): the branch that updates in place of creating
UseUpdate(existing, force) == existing /\ force

\* thirdPartyResources.ns.functions.get callback
LookupResponse(o) ==
  /\ Running
  /\ op[o].pc = "lookup"
  /\ \/ \* if (err) throw err
        /\ op' = [op EXCEPT ![o].pc = "thrown", ![o].fault = "lookup"]
        /\ uncaught' = TRUE
        /\ UNCHANGED <<poll, calls, errors, counter, outcome>>
     \/ \E items \in FunctionLists :
          LET funcs == Manifest(o)
              found == {it \in items : it.metadata.name = funcs.metadata.name}
              seen == [op EXCEPT ![o].found = found]
          IN /\ uncaught' = uncaught
             /\ IF existingSameFunction(items, funcs)
                THEN \* new BbPromise(r => r(false)): no ingress step
                     /\ Finish(o, seen, errors, "none")
                     /\ UNCHANGED <<poll, calls>>
                ELSE IF UseUpdate(existingFunction(items, funcs), opts.force)
                THEN /\ op' = [seen EXCEPT ![o].pc = "put",
                                           ![o].redeployed = TRUE]
                     /\ calls' = [calls EXCEPT ![o].update = @ + 1]
                     /\ UNCHANGED <<poll, errors, counter, outcome>>
                ELSE /\ op' = [seen EXCEPT ![o].pc = "post"]
                     /\ calls' = [calls EXCEPT ![o].create = @ + 1]
                     /\ UNCHANGED <<poll, errors, counter, outcome>>
  /\ UNCHANGED <<functions, opts, called, exitCode, last>>

\* deployFunctionAndWait: the functions.post callback
PostResponse(o) ==
  /\ Running
  /\ op[o].pc = "post"
  /\ \/ \* err.code === 409: resolve(false)
        /\ AfterDeployment(o, FALSE, errors, "conflict")
        /\ UNCHANGED <<poll, calls>>
     \/ \* any other error: reject(new Error('Unable to deploy ...'))
        /\ AfterDeployment(o, FALSE,
             Append(errors, Failure(o, "DeploymentSubmissionFailed")),
             "submit")
        /\ UNCHANGED <<poll, calls>>
     \/ \* no error: waitForDeployment(...).then(() => resolve(true))
        /\ \E m \in PollMoments :
             poll' = [poll EXCEPT ![o] = NewPoll(o[1], m, opts.verbose)]
        /\ op' = [op EXCEPT ![o].pc = "postwait"]
        /\ UNCHANGED <<calls, errors, counter, outcome>>
  /\ UNCHANGED <<functions, opts, called, exitCode, uncaught, last>>

\* redeployFunctionAndWait: the functions(name).put callback
PutResponse(o) ==
  /\ Running
  /\ op[o].pc = "put"
  /\ \/ \* error: reject(new Error('Unable to update ...'))
        /\ AfterDeployment(o, FALSE,
             Append(errors, Failure(o, "DeploymentUpdateFailed")), "update")
        /\ UNCHANGED <<poll, calls>>
     \/ \* no error: waitForDeployment(...).then(() => resolve(true))
        /\ \E m \in PollMoments :
             poll' = [poll EXCEPT ![o] = NewPoll(o[1], m, opts.verbose)]
        /\ op' = [op EXCEPT ![o].pc = "putwait"]
        /\ UNCHANGED <<calls, errors, counter, outcome>>
  /\ UNCHANGED <<functions, opts, called, exitCode, uncaught, last>>

\* addIngressRuleIfNecessary: the ingress.post callback, and deploy()'s
\* p.catch / p.then on its promise
IngressResponse(o) ==
  /\ Running
  /\ op[o].pc = "ingress"
  /\ \/ \* reject: p.catch records the error, p.then(...) never runs
        /\ errors' = Append(errors, Failure(o, "IngressProvisioningFailed"))
        /\ op' = [op EXCEPT ![o].pc = "stuck", ![o].fault = "ingress"]
        /\ UNCHANGED <<counter, outcome>>
     \/ Finish(o, op, errors, "none")
  /\ UNCHANGED <<functions, opts, called, poll, calls, exitCode, uncaught,
                 last>>

\* addIngressRuleIfNecessary(funcName, eventType, eventPath, eventHostname)
\* called on its own: the promise executor
AddIngressRule(o) ==
  /\ ~called
  /\ called' = TRUE
  /\ LET e == EventsOf(functions[o[1]])[o[2]] IN
     IF IngressNeeded(e.type, e.path, e.hostname)
     THEN /\ calls' = [calls EXCEPT ![o].ingress = @ + 1,
                                    ![o].path = absolutePath(e.path)]
          /\ op' = [op EXCEPT ![o].pc = "ingress"]
          /\ UNCHANGED outcome
     ELSE \* Skipping ingress rule generation: resolve()
          /\ outcome' = [state |-> "resolved", kind |-> "none",
                         messages |-> <<>>]
          /\ op' = [op EXCEPT ![o].pc = "done"]
          /\ UNCHANGED calls
  /\ UNCHANGED <<functions, opts, poll, errors, counter, exitCode, uncaught,
                 last>>

\* addIngressRuleIfNecessary called on its own: the ingress.post callback
IngressPostResponse(o) ==
  /\ op[o].pc = "ingress"
  /\ \/ \* reject('Unable to deploy the function ... in the given path')
        /\ outcome' = [state |-> "rejected",
                       kind |-> "IngressProvisioningFailed",
                       messages |-> <<>>]
        /\ op' = [op EXCEPT ![o].pc = "done", ![o].fault = "ingress"]
     \/ \* resolve()
        /\ outcome' = [state |-> "resolved", kind |-> "none",
                       messages |-> <<>>]
        /\ op' = [op EXCEPT ![o].pc = "done"]
  /\ UNCHANGED <<functions, opts, called, poll, calls, errors, counter,
                 exitCode, uncaught, last>>

\* waitForDeployment: one firing of the setInterval callback
Tick(o) ==
  /\ Running
  /\ poll[o].active
  /\ poll[o].ticking
  /\ poll[o].inflight < MaxInflight
  /\ poll' = [poll EXCEPT ![o] = TickPoll(@)]
  /\ calls' = [calls EXCEPT ![o].pods = TRUE]
  /\ UNCHANGED <<functions, opts, called, op, errors, counter, outcome,
                 exitCode, uncaught, last>>

\* What a pod-list reply shows about the polled function (history only)
Observe(o, r) ==
  LET p == poll[o]
      mine == {i \in DOMAIN r.items :
                 /\ r.items[i].function = p.funcName
                 /\ r.items[i].creationTimestamp >= p.requestMoment}
      st(i) == r.items[i].containerStatuses
  IN [pair |-> o, err |-> r.err,
      matching |-> Cardinality(mine),
      ready |-> Cardinality({i \in mine :
                   st(i) # NoStatus /\ st(i)[1].ready}),
      crashing |-> Cardinality({i \in mine :
                   /\ st(i) # NoStatus
                   /\ ~st(i)[1].ready
                   /\ st(i)[1].restartCount > 2}),
      ignored |-> Len(r.items) > Cardinality(mine)]

AnswerCountingTimeouts(p, r) ==
  LET p0 == [p EXCEPT !.inflight = @ - 1] IN
  IF r.err = "none" THEN PodsReply(p0, r.items)
  ELSE IF r.err = "timeout" THEN [p0 EXCEPT !.retries = @ + 1]
  ELSE p0

\* waitForDeployment: the core.pods.get callback on the PollState
Answer(p, r) ==
  LET p0 == [p EXCEPT !.inflight = @ - 1] IN
  IF r.err = "none" THEN PodsReply(p0, r.items) ELSE p0

\* waitForDeployment: the core.pods.get callback of the stand-alone poller
PodsResponse(o, replies) ==
  /\ Running
  /\ poll[o].active
  /\ poll[o].inflight > 0
  /\ \E r \in replies :
       /\ poll' = [poll EXCEPT ![o] = Answer(@, r)]
       /\ last' = Observe(o, r)
       /\ uncaught' = (uncaught \/ r.err = "other")
       /\ exitCode' = IF r.err = "none"
                      THEN ExitCodeAfter(poll[o], r.items, exitCode)
                      ELSE exitCode
  /\ UNCHANGED <<functions, opts, called, op, calls, errors, counter,
                 outcome>>

\* Once the interval is cleared and no query is outstanding nothing refers to
\* retries and successfulCount any more: only the promise remains.
Discard(p) ==
  IF p.ticking \/ p.inflight > 0 THEN p
  ELSE [p EXCEPT !.retries = 0, !.successfulCount = 0]

\* waitForDeployment inside a batch: one firing of the setInterval callback
\* and the core.pods.get callback of the query it sent, followed by the
\* continuation of deployFunctionAndWait / redeployFunctionAndWait when the
\* poll resolves.  Between the two callbacks only this poller's own state is
\* touched, so they are taken in one step; queries that overlap a later tick
\* are covered by the stand-alone poller.
PollRound(o, replies) ==
  /\ Running
  /\ poll[o].active
  /\ poll[o].ticking
  /\ \E r \in replies :
       LET p0 == TickPoll(poll[o])
           p1 == Answer(p0, r)
           e == EventsOf(functions[o[1]])[o[2]]
       IN /\ poll' = [poll EXCEPT ![o] = Discard(p1)]
          /\ uncaught' = (uncaught \/ r.err = "other")
          /\ exitCode' = IF r.err = "none"
                         THEN ExitCodeAfter(p0, r.items, exitCode)
                         ELSE exitCode
          /\ IF /\ p0.result = "pending"
                /\ p1.result = "resolved"
                /\ op[o].pc \in {"postwait", "putwait"}
             THEN /\ AfterDeployment(o, TRUE, errors, "none")
                  /\ calls' = [calls EXCEPT
                       ![o].pods = TRUE,
                       ![o].ingress = IF op'[o].pc = "ingress"
                                      THEN @ + 1 ELSE @,
                       ![o].path = IF op'[o].pc = "ingress"
                                   THEN absolutePath(e.path) ELSE @]
             ELSE /\ calls' = [calls EXCEPT ![o].pods = TRUE]
                  /\ UNCHANGED <<op, errors, counter, outcome>>
  /\ UNCHANGED <<functions, opts, called, last>>

Labels == <<1, 2>>

\* The pods a reply may list, numbered
PodCount == Len(Labels) * Len(Times) * Len(ContainerStatuses)

PodAt(k) ==
  Pod(Labels[1 + ((k - 1) % Len(Labels))],
      Times[1 + (((k - 1) \div Len(Labels)) % Len(Times))],
      ContainerStatuses[1 + ((k - 1) \div (Len(Labels) * Len(Times)))])

Timeout == [err |-> "timeout", items |-> <<>>]
TransportError == [err |-> "other", items |-> <<>>]

\* Every reply of the pod list with at most MaxPods pods.  The poller reads
\* podsInfo.items as a bag (filter, each, length), so the lists are
\* enumerated up to the order of their pods.
PodLists ==
  UNION {{[i \in 1..n |-> PodAt(g[i])] :
            g \in {h \in [1..n -> 1..PodCount] :
                     \A i \in 1..n, j \in 1..n : i < j => h[i] <= h[j]}} :
         n \in 0..MaxPods}

AllPodReplies ==
  {Timeout, TransportError} \cup
  {[err |-> "none", items |-> items] : items \in PodLists}

\* One reply of each kind the poller distinguishes, for the function named
BatchPodReplies(name) ==
  {Timeout, TransportError} \cup
  {[err |-> "none", items |-> items] : items \in
     {<<>>,
      <<Pod(name, 1, <<[ready |-> TRUE, restartCount |-> 0]>>)>>,
      <<Pod(name, 1, <<[ready |-> FALSE, restartCount |-> 2]>>)>>,
      <<Pod(name, 1, <<[ready |-> TRUE, restartCount |-> 0]>>),
        Pod(name, 1, <<[ready |-> FALSE, restartCount |-> 3]>>)>>}}

\* ---------------------------------------------------------- specifications
\* The state before deploy(functions, runtime, options) is called
InitBatch(inputs) ==
  /\ functions \in inputs
  /\ opts \in [force : BOOLEAN, verbose : BOOLEAN]
  /\ called = FALSE
  /\ op = [o \in Pairs |-> NoOp]
  /\ poll = [o \in Pairs |-> NoPoll]
  /\ calls = [o \in Pairs |-> NoCalls]
  /\ errors = <<>>
  /\ counter = 0
  /\ outcome = Pending
  /\ exitCode = 0
  /\ uncaught = FALSE
  /\ last = NoLast

\* Batches of up to MaxPairs + 1 pairs: pairs of one batch run concurrently
Init == InitBatch(BatchInputs(MaxPairs + 1))

\* Batches of up to MaxPairs pairs
InitPair == InitBatch(BatchInputs(MaxPairs))

Next ==
  \/ Deploy
  \/ \E o \in Pairs : LookupResponse(o)
  \/ \E o \in Pairs : PostResponse(o)
  \/ \E o \in Pairs : PutResponse(o)
  \/ \E o \in Pairs : PollRound(o, BatchPodReplies(o[1]))
  \/ \E o \in Pairs : IngressResponse(o)

Spec == Init /\ [][Next]_vars

SpecPair == InitPair /\ [][Next]_vars

\* waitForDeployment called on its own for function 1
PollPair == <<1, 1>>

InitPoll ==
  /\ functions = <<>>
  /\ opts \in [force : {FALSE}, verbose : BOOLEAN]
  /\ called = FALSE
  /\ op = [o \in Pairs |-> NoOp]
  /\ \E m \in PollMoments :
       poll = [o \in Pairs |->
                 IF o = PollPair THEN NewPoll(1, m, opts.verbose)
                 ELSE NoPoll]
  /\ calls = [o \in Pairs |-> NoCalls]
  /\ errors = <<>>
  /\ counter = 0
  /\ outcome = Pending
  /\ exitCode = 0
  /\ uncaught = FALSE
  /\ last = NoLast

NextPoll ==
  \/ Tick(PollPair)
  \/ PodsResponse(PollPair, AllPodReplies)

SpecPoll == InitPoll /\ [][NextPoll]_vars

\* addIngressRuleIfNecessary called on its own for one event of function 1
IngressPair == <<1, 1>>

InitIngress ==
  /\ functions \in {<<[handler |-> "h", text |-> "v2", events |-> <<e>>]>> :
                      e \in IngressEvents}
  /\ opts \in [force : {FALSE}, verbose : BOOLEAN]
  /\ called = FALSE
  /\ op = [o \in Pairs |-> NoOp]
  /\ poll = [o \in Pairs |-> NoPoll]
  /\ calls = [o \in Pairs |-> NoCalls]
  /\ errors = <<>>
  /\ counter = 0
  /\ outcome = Pending
  /\ exitCode = 0
  /\ uncaught = FALSE
  /\ last = NoLast

NextIngress ==
  \/ AddIngressRule(IngressPair)
  \/ IngressPostResponse(IngressPair)

SpecIngress == InitIngress /\ [][NextIngress]_vars

TypeOK ==
  /\ called \in BOOLEAN
  /\ counter \in 0..(MaxFuncs * MaxEvents)
  /\ outcome.state \in {"pending", "resolved", "rejected"}
  /\ exitCode \in {0, 1}
  /\ \A o \in Pairs :
       /\ op[o].pc \in {"none", "lookup", "post", "put", "postwait",
                        "putwait", "ingress", "done", "stuck", "thrown"}
       /\ poll[o].result \in {"none", "pending", "resolved", "rejected"}

\* ------------------------------------------------------------------ claims
Scheduled(o) == op[o].pc # "none"
Completed(o) == op[o].pc = "done"
ErrorsOf(o) == {k \in 1..Len(errors) : errors[k].pair = o}
SameSpecFound(o) == \E it \in op[o].found : it.spec = Manifest(o).spec
OtherSpecFound(o) ==
  /\ op[o].found # {}
  /\ \A it \in op[o].found : it.spec # Manifest(o).spec

\* C1: the batch resolves success only when every scheduled function x event
\* operation has completed, also when a function has several events.
C1_ResolvedOnlyWhenAllCompleted ==
  outcome.state = "resolved" => \A o \in Pairs : Scheduled(o) => Completed(o)

\* C2: once every scheduled operation of a batch has completed, the batch
\* is resolved or failed, whatever the mix of descriptors.
C2_FinalizedWhenAllCompleted ==
  (/\ called
   /\ \E o \in Pairs : Scheduled(o)
   /\ \A o \in Pairs : Scheduled(o) => Completed(o))
  => outcome.state # "pending"

\* The pair has met a failure: submission, update, readiness poll or ingress
Failed(o) ==
  \/ op[o].fault \in {"submit", "update", "ingress"}
  \/ poll[o].result = "rejected"

\* Nothing more will run for the pair: no request and no timer outstanding
Quiescent(o) ==
  \/ op[o].pc \in {"done", "stuck"}
  \/ /\ op[o].pc \in {"postwait", "putwait"}
     /\ poll[o].result = "rejected"
     /\ ~poll[o].ticking

\* C3: when exactly one pair of a fully scheduled batch fails and the others
\* succeed, the batch has failed with an aggregate that lists that pair's
\* message and nothing else.
C3_SingleFailureAggregated ==
  \A f \in Pairs :
    (/\ called
     /\ ~uncaught
     /\ \A k \in 1..Len(PairsFrom(functions, 1, 1)) :
          Scheduled(PairsFrom(functions, 1, 1)[k])
     /\ Failed(f)
     /\ Quiescent(f)
     /\ \A o \in Pairs \ {f} : Scheduled(o) => (Completed(o) /\ ~Failed(o)))
    => /\ outcome.state = "rejected"
       /\ outcome.kind = "BatchDeploymentFailed"
       /\ Len(outcome.messages) = 1
       /\ outcome.messages[1].pair = f

\* C4: a reply showing a matching pod that is not ready with more than two
\* restarts makes the poll fail with DeploymentCrashLoop.
C4_CrashLoopFailsPoll ==
  last.crashing > 0 =>
    /\ poll[PollPair].result = "rejected"
    /\ poll[PollPair].reason = "DeploymentCrashLoop"

\* C5: a reply in which some matching pod is not ready leaves
\* successfulCount at 0, whatever the verbose option.
C5_NotReadyResetsCount ==
  (last.err = "none" /\ last.matching > 0 /\ last.ready < last.matching)
  => poll[PollPair].successfulCount = 0

\* C6: the step in which the poll gives up with DeploymentTimeout, and every
\* later step, sends no pod query.
C6_NoQueryAfterGivingUp ==
  [][poll'[PollPair].reason = "DeploymentTimeout"
       => poll'[PollPair].inflight <= poll[PollPair].inflight]_vars

\* C7: a descriptor without a handler causes no API call of any kind and no
\* entry of the error list.
C7_NoHandlerNoCalls ==
  \A i \in 1..Len(functions) :
    functions[i].handler = "" =>
      \A j \in 1..MaxEvents :
        /\ calls[<<i, j>>] = NoCalls
        /\ op[<<i, j>>].pc = "none"
        /\ ErrorsOf(<<i, j>>) = {}

C7_Witness ==
  /\ called
  /\ \E i \in 1..Len(functions) : functions[i].handler = ""
  /\ \E o \in Pairs : Completed(o)

\* C8: when the function list shows the same name with a deep-equal spec, no
\* create, update or ingress call is issued for the pair, no error is
\* recorded, and the pair is counted as completed.
C8_UnchangedSkips ==
  \A o \in Pairs :
    SameSpecFound(o) =>
      /\ calls[o].create = 0
      /\ calls[o].update = 0
      /\ calls[o].ingress = 0
      /\ ~calls[o].pods
      /\ ErrorsOf(o) = {}
      /\ Completed(o)
      /\ counter >= 1

C8_Witness ==
  \E o \in Pairs : SameSpecFound(o) /\ Completed(o)

\* C9: with force set and the same name found with a different spec, an
\* update call is issued, never a create call, and never an ingress call,
\* whatever becomes of the update and of its readiness poll.
C9_ForcedUpdateNoIngress ==
  \A o \in Pairs :
    (opts.force /\ OtherSpecFound(o)) =>
      /\ calls[o].update = 1
      /\ calls[o].create = 0
      /\ calls[o].ingress = 0
      /\ op[o].pc # "ingress"

C9_Witness ==
  \E o \in Pairs :
    /\ opts.force
    /\ OtherSpecFound(o)
    /\ poll[o].result = "resolved"
    /\ Completed(o)
    /\ EventsOf(functions[o[1]])[o[2]] = HttpFoo

\* C10: at most one ingress call per pair, and only after the pair's create
\* call succeeded and its readiness poll resolved success: not after a skip,
\* a conflict, a failed deployment or an update.
C10_IngressOnlyAfterFreshCreate ==
  \A o \in Pairs :
    /\ calls[o].ingress <= 1
    /\ calls[o].ingress = 1 =>
         /\ calls[o].create = 1
         /\ calls[o].update = 0
         /\ ~op[o].redeployed
         /\ ~SameSpecFound(o)
         /\ poll[o].result = "resolved"
         /\ op[o].fault \notin {"conflict", "submit", "update"}
         /\ \A k \in ErrorsOf(o) :
              errors[k].error = "IngressProvisioningFailed"

C10_Witness ==
  \E o \in Pairs : calls[o].ingress = 1 /\ Completed(o)

\* C11: addIngressRuleIfNecessary issues an ingress call iff the event type
\* is http and (the path is non-empty and not "/", or a hostname is set);
\* never for type trigger; and the path of the rule it posts is absolute: the
\* event's path, prefixed with "/" when it lacks one.
C11_IngressIffHttpRoute ==
  LET e == functions[IngressPair[1]].events[IngressPair[2]]
      c == calls[IngressPair]
  IN called =>
       /\ c.ingress \in {0, 1}
       /\ c.ingress = 1 <=>
            /\ e.type = "http"
            /\ \/ (e.path # NoPath /\ e.path # RootPath)
               \/ e.hostname # NoHost
       /\ e.type = "trigger" => c.ingress = 0
       /\ c.ingress = 1 =>
            /\ c.path[1] = "/"
            /\ c.path = IF e.path = NoPath THEN RootPath
                        ELSE IF e.path[1] = "/" THEN e.path
                        ELSE <<"/">> \o e.path

C11_Witness ==
  /\ calls[IngressPair].ingress = 1
  /\ functions[1].events[1].path = <<"f">>
  /\ calls[IngressPair].path = <<"/", "f">>
  /\ outcome.state = "resolved"

\* The function list of the pair has been answered and handled
LookedUp(o) == op[o].pc \notin {"none", "lookup", "thrown"}

\* C12: whenever the manifest is not unchanged and not (existing name with
\* force set), exactly one create call and no update call is issued for the
\* pair: for a new name, and for an existing name with a different spec
\* without force.
C12_CreateUnlessSameOrForced ==
  \A o \in Pairs :
    (/\ LookedUp(o)
     /\ ~SameSpecFound(o)
     /\ ~(op[o].found # {} /\ opts.force))
    => /\ calls[o].create = 1
       /\ calls[o].update = 0

C12_Witness ==
  \E o \in Pairs :
    /\ ~opts.force
    /\ OtherSpecFound(o)
    /\ calls[o].create = 1
    /\ op[o].fault = "conflict"

\* C13: after a successful submission the poller's success resolves the
\* operation as deployed (the pair leaves its wait), and the poller's failure
\* propagates as the operation's failure: an entry for the pair is in the
\* error list and the pair has completed.
C13_PollVerdictPropagates ==
  \A o \in Pairs :
    (Running /\ calls[o].create + calls[o].update = 1) =>
      /\ poll[o].result = "resolved" =>
           op[o].pc \in {"ingress", "done", "stuck"}
      /\ poll[o].result = "rejected" =>
           /\ ErrorsOf(o) # {}
           /\ Completed(o)

\* C14: when the ingress submission of a pair fails, the failure is in the
\* error list exactly once, the pair counts as completed (the counter was
\* incremented for it), and once every scheduled pair is completed or has
\* failed its ingress the batch has failed with the aggregate error.
C14_IngressFailureCompletes ==
  \A o \in Pairs :
    op[o].fault = "ingress" =>
      /\ Cardinality(ErrorsOf(o)) = 1
      /\ calls[o].create = 1
      /\ Completed(o)
      /\ counter >= 1
      /\ (\A q \in Pairs : Scheduled(q) =>
             (Completed(q) \/ op[q].fault = "ingress"))
          => /\ outcome.state = "rejected"
             /\ outcome.kind = "BatchDeploymentFailed"

\* C15: an error raised while building the manifest of one pair is deferred
\* to the batch boundary: every other pair of the batch is still scheduled,
\* and the promise of deploy() is rejected only with the aggregate error,
\* after all scheduled pairs have completed.
C15_BuildErrorDeferred ==
  called =>
    /\ \A k \in 1..Len(PairsFrom(functions, 1, 1)) :
         LET o == PairsFrom(functions, 1, 1)[k] IN
         Manifest(o).thrown = "none" => Scheduled(o)
    /\ outcome.state = "rejected" =>
         /\ outcome.kind = "BatchDeploymentFailed"
         /\ \A o \in Pairs : Scheduled(o) => Completed(o)

\* C16: a create call answered with a conflict (409) resolves the operation
\* as not deployed: no entry of the error list, no readiness poll, no ingress
\* call, and the pair completes; any other error of the create call puts one
\* DeploymentSubmissionFailed entry in the error list, again without poll
\* and without ingress call.
C16_ConflictIsNotAnError ==
  \A o \in Pairs :
    /\ op[o].fault = "conflict" =>
         /\ calls[o].create = 1
         /\ ErrorsOf(o) = {}
         /\ poll[o] = NoPoll
         /\ ~calls[o].pods
         /\ calls[o].ingress = 0
         /\ Completed(o)
    /\ op[o].fault = "submit" =>
         /\ calls[o].create = 1
         /\ Cardinality(ErrorsOf(o)) = 1
         /\ \A k \in ErrorsOf(o) :
              errors[k].error = "DeploymentSubmissionFailed"
         /\ poll[o] = NoPoll
         /\ ~calls[o].pods
         /\ calls[o].ingress = 0

C16_Witness ==
  \E o \in Pairs :
    /\ op[o].fault = "conflict"
    /\ Completed(o)
    /\ EventsOf(functions[o[1]])[o[2]] = HttpFoo
    /\ outcome.state = "resolved"

\* C17: every poll reaches a terminal state and returns a success signal or
\* a failure reason.  In finite-run form: a poll that can take no further
\* step (interval cleared, no pod query outstanding) has settled its promise.
C17_StoppedPollHasReturned ==
  LET p == poll[PollPair] IN
  (Running /\ p.active /\ ~p.ticking /\ p.inflight = 0)
  => p.result \in {"resolved", "rejected"}

\* C18: a pod query that fails with a transport error other than a timeout
\* fails the poll at once and stops its ticking.
C18_TransportErrorFailsPoll ==
  last.err = "other" =>
    /\ poll[PollPair].result = "rejected"
    /\ ~poll[PollPair].ticking

\* C19: retries changes only by an increment of one, made by the callback
\* of a pod query that succeeded and listed no matching pod; a timed-out
\* query, a reply with a matching pod (ready or not) and a tick leave it
\* unchanged, and nothing resets it.
C19_RetriesOnlyOnEmptyReply ==
  [][LET p == poll[PollPair]
         q == poll'[PollPair]
     IN /\ q.retries \in {p.retries, p.retries + 1}
        /\ q.retries = p.retries + 1 <=>
             /\ q.inflight < p.inflight
             /\ last'.err = "none"
             /\ last'.matching = 0]_vars

C19_Witness ==
  /\ poll[PollPair].retries = 2
  /\ last.err = "timeout"
  /\ poll[PollPair].ticking

\* C20: a pod created before the request moment, or labelled with another
\* function, never influences the poll: a reply whose pods are all of that
\* kind only increments retries, and the ready count, the crash-loop branch
\* and the exit code follow from the matching pods alone.
C20_OtherPodsIgnored ==
  [][LET p == poll[PollPair]
         q == poll'[PollPair]
     IN (q.inflight < p.inflight /\ last'.err = "none") =>
          /\ last'.matching = 0 =>
               /\ q = [p EXCEPT !.inflight = @ - 1, !.retries = @ + 1]
               /\ exitCode' = exitCode
          /\ last'.matching > 0 => q.retries = p.retries
          /\ q.successfulCount = p.successfulCount + 1 <=>
               (last'.matching > 0 /\ last'.ready = last'.matching)
          /\ (p.ticking /\ ~q.ticking) =>
               (last'.crashing > 0 \/ q.successfulCount = 2)
          /\ exitCode' # exitCode => last'.crashing > 0]_vars

C20_Witness ==
  /\ last.err = "none"
  /\ last.ignored
  /\ last.matching = 0
  /\ poll[PollPair].retries > 0
  /\ exitCode = 0

\* C21: once the poll has reached a terminal state (its interval is
\* cleared), the reply of a pod query that was still in flight changes
\* nothing: retries and successfulCount keep their values and the promise
\* keeps its state, so no second outcome is reported.
C21_LateReplyChangesNothing ==
  [][LET p == poll[PollPair]
         q == poll'[PollPair]
     IN (~p.ticking /\ q.inflight < p.inflight) =>
          /\ q.retries = p.retries
          /\ q.successfulCount = p.successfulCount
          /\ q.result = p.result
          /\ q.reason = p.reason]_vars

====
